---- MODULE Spec2Model ----
(***************************************************************************)
(* schedmeet: the availability grid, its aggregation, the best-slot        *)
(* finder and the time-slot indexer, modelled from the TypeScript source.  *)
(*                                                                         *)
(* Strings are sequences of one-character strings, so that building a slot *)
(* key (concatenation) and decoding it (split / lastIndexOf / slice) are   *)
(* modelled by what they do.  A time of day is parsed to minutes and       *)
(* formatted back to "HH:mm" digit by digit.                               *)
(***************************************************************************)
EXTENDS Integers, Sequences, FiniteSets, TLC

VARIABLES
    dates,             \* the grid's columns (dates prop / gridColumns)
    time_range,        \* eventData.time_range: [start, end], "HH:mm" strings
    responses,         \* responses collection: sequence of [user, resp]
    userAvailability,  \* the respondent's availability map (sparse)
    isDragging,        \* AvailabilityGrid state
    dragMode,          \* AvailabilityGrid state: "select" | "deselect"
    dragStartSlot,     \* AvailabilityGrid state: slot key or Null
    variant,           \* which AvailabilityGrid is mounted: "mouse" | "selecto"
    isReadOnly,        \* prop of the selecto grid
    isScheduling,      \* prop of the selecto grid
    scheduledSlot,     \* NoSlot, or <<[date, time]>> for the chosen slot
    last,              \* the last call or event: its name, arguments and result
    dragBase,          \* history: userAvailability at the gesture's pointer-down
    index,             \* the Index page: timeRange, its TimeRangeSelector's state,
                       \* and the rows it has inserted into the events table
    page,              \* the EventPage: userName, its flags, and the position of
                       \* handleSubmitAvailability between its awaits
    votes              \* the votes table of the event: sequence of [user_name, availability]

vars == <<dates, time_range, responses, userAvailability, isDragging, dragMode,
          dragStartSlot, variant, isReadOnly, isScheduling, scheduledSlot,
          last, dragBase, index, page, votes>>

Null == "null"

\* scheduledSlot when it is null; a chosen slot is the one-element list of it
NoSlot == <<>>

(***************************************************************************)
(* Bounds of the model.                                                    *)
(***************************************************************************)
\* respondents in a responses collection
MaxUsers == 2
\* columns of the grid getSlotsBetween is asked about
NumCols == 3
\* participants the heatmap is asked about
MaxTotal == 10
\* events the Index page creates
MaxEvents == 1

(***************************************************************************)
(* Strings.                                                                *)
(***************************************************************************)
Digits == <<"0", "1", "2", "3", "4", "5", "6", "7", "8", "9">>

DigitChar(n) == Digits[n + 1]

DigitVal(c) == (CHOOSE i \in 1..10 : Digits[i] = c) - 1

IsDigit(c) == \E i \in 1..10 : Digits[i] = c

Sep == "_"

\* `${undefined}` in a template literal
Undefined == <<"u", "n", "d", "e", "f", "i", "n", "e", "d">>

\* Array.prototype.indexOf: 0-based, -1 when absent
IndexOf(arr, x) ==
    IF \E i \in 1..Len(arr) : arr[i] = x
    THEN (CHOOSE i \in 1..Len(arr) : arr[i] = x /\ \A j \in 1..(i - 1) : arr[j] # x) - 1
    ELSE -1

\* arr[i] for a 0-based index; undefined outside the array
At(arr, i) == IF i \in 0..(Len(arr) - 1) THEN arr[i + 1] ELSE Undefined

\* String.prototype.lastIndexOf for a one-character needle: 0-based, -1 when absent
LastIndexOf(s, c) ==
    IF \E i \in 1..Len(s) : s[i] = c
    THEN (CHOOSE i \in 1..Len(s) : s[i] = c /\ \A j \in (i + 1)..Len(s) : s[j] # c) - 1
    ELSE -1

\* String.prototype.slice(from, to) for 0 <= from, to <= length
Slice(s, from, to) == [k \in 1..(IF to > from THEN to - from ELSE 0) |-> s[from + k]]

\* String.prototype.split on a one-character separator: every part
RECURSIVE Split(_, _)
Split(s, c) ==
    IF \E i \in 1..Len(s) : s[i] = c
    THEN LET i == CHOOSE i \in 1..Len(s) : s[i] = c /\ \A j \in 1..(i - 1) : s[j] # c
         IN  <<SubSeq(s, 1, i - 1)>> \o Split(SubSeq(s, i + 1, Len(s)), c)
    ELSE <<s>>

(***************************************************************************)
(* Times of day: date-fns parse(.., "HH:mm") and format(.., "HH:mm").      *)
(***************************************************************************)
MinutesPerHour == 60
HoursPerDay == 24
SlotMinutes == 30

\* parse(s, "HH:mm", new Date()): minutes since the reference day's midnight;
\* -1 stands for an Invalid Date
ParseHHmm(s) ==
    IF /\ Len(s) = 5
       /\ s[3] = ":"
       /\ \A i \in {1, 2, 4, 5} : IsDigit(s[i])
       /\ DigitVal(s[1]) * 10 + DigitVal(s[2]) < HoursPerDay
       /\ DigitVal(s[4]) * 10 + DigitVal(s[5]) < MinutesPerHour
    THEN ((DigitVal(s[1]) * 10 + DigitVal(s[2])) * MinutesPerHour)
         + (DigitVal(s[4]) * 10 + DigitVal(s[5]))
    ELSE -1

\* format(d, "HH:mm") of a Date m minutes after the reference day's midnight
FormatHHmm(m) ==
    LET h  == (m \div MinutesPerHour) % HoursPerDay
        mi == m % MinutesPerHour
    IN  <<DigitChar(h \div 10), DigitChar(h % 10), ":",
          DigitChar(mi \div 10), DigitChar(mi % 10)>>

\* TimeRangeSelector.generateTimeOptions: the 48 values a time range is built from
generateTimeOptions ==
    [k \in 1..(HoursPerDay * 2) |->
        LET hour == (k - 1) \div 2
            minute == ((k - 1) % 2) * SlotMinutes
        IN  <<DigitChar(hour \div 10), DigitChar(hour % 10), ":",
              DigitChar(minute \div 10), DigitChar(minute % 10)>>]

TimeValues == {generateTimeOptions[k] : k \in 1..Len(generateTimeOptions)}

\* a variant of the loop that runs while currentTime <= endTime
RECURSIVE SlotLoop_inclusive(_, _)
SlotLoop_inclusive(currentTime, endTime) ==
    IF currentTime <= endTime
    THEN <<FormatHHmm(currentTime)>> \o SlotLoop_inclusive(currentTime + SlotMinutes, endTime)
    ELSE <<>>

\* the while loop of generateTimeSlots: currentTime < endTime
RECURSIVE SlotLoop(_, _)
SlotLoop(currentTime, endTime) ==
    IF currentTime < endTime
    THEN <<FormatHHmm(currentTime)>> \o SlotLoop(currentTime + SlotMinutes, endTime)
    ELSE <<>>

\* a variant that orders the two ends of the range before the loop
generateTimeSlots_ordersEnds(range) ==
    LET startTime == ParseHHmm(range.start)
        endTime   == ParseHHmm(range.end)
    IN  IF startTime = -1 \/ endTime = -1 THEN <<>>
        ELSE SlotLoop(IF startTime < endTime THEN startTime ELSE endTime,
                      IF startTime < endTime THEN endTime ELSE startTime)

\* EventPage.generateTimeSlots for eventData.time_range = range
generateTimeSlots(range) ==
    LET startTime == ParseHHmm(range.start)
        endTime   == ParseHHmm(range.end)
    IN  IF startTime = -1 \/ endTime = -1 THEN <<>>   \* a comparison with an Invalid Date is false
        ELSE SlotLoop(startTime, endTime)

(***************************************************************************)
(* Availability maps: Record<string, boolean>, sparse.                     *)
(***************************************************************************)
EmptyMap == <<>>

\* m[k] used as a condition: an absent key is undefined, which is falsy
Truthy(m, k) == k \in DOMAIN m /\ m[k]

\* { ...m, [k]: v }
Put(m, k, v) == [x \in (DOMAIN m) \cup {k} |-> IF x = k THEN v ELSE m[x]]

\* m with m[ks[i]] = v assigned for i = 1..Len(ks), in order
RECURSIVE PutAll(_, _, _)
PutAll(m, ks, v) ==
    IF ks = <<>> THEN m ELSE PutAll(Put(m, Head(ks), v), Tail(ks), v)

(***************************************************************************)
(* AvailabilityGrid: pure helpers.                                         *)
(***************************************************************************)
\* getSlotKey: `${dateStr}_${timeSlot}`
getSlotKey(dateStr, timeSlot) == dateStr \o <<Sep>> \o timeSlot

\* the forEach of getAvailabilityData over Object.entries(responses), from entry i
RECURSIVE AvailabilityLoop(_, _, _, _)
AvailabilityLoop(resp, slotKey, i, acc) ==
    IF i > Len(resp) THEN acc
    ELSE AvailabilityLoop(resp, slotKey, i + 1,
            IF Truthy(resp[i].resp, slotKey)
            THEN [count |-> acc.count + 1,
                  availableUsers |-> Append(acc.availableUsers, resp[i].user)]
            ELSE acc)

\* a variant that counts a respondent whose map has the key at all, whatever
\* the stored value
getAvailabilityData_keyPresent(resp, dateStr, timeSlot) ==
    LET slotKey == getSlotKey(dateStr, timeSlot)
        has(e)  == slotKey \in DOMAIN e.resp
        hits    == SelectSeq(resp, has)
    IN  [count |-> Len(hits), availableUsers |-> [i \in 1..Len(hits) |-> hits[i].user]]

getAvailabilityData(resp, dateStr, timeSlot) ==
    AvailabilityLoop(resp, getSlotKey(dateStr, timeSlot), 1,
                     [count |-> 0, availableUsers |-> <<>>])

getTotalParticipants(resp) == Len(resp)

\* a variant whose thresholds are exclusive (ratio > 0.8, ...)
getHeatmapColor_strict(count, total, isUserSelected) ==
    IF total = 0 THEN "bg-gray-50 hover:bg-gray-100"
    ELSE IF isUserSelected
    THEN IF count * 10 > 8 * total THEN "bg-green-600 border-green-700"
         ELSE IF count * 10 > 6 * total THEN "bg-green-500 border-green-600"
         ELSE IF count * 10 > 4 * total THEN "bg-green-400 border-green-500"
         ELSE IF count * 10 > 2 * total THEN "bg-green-300 border-green-400"
         ELSE "bg-green-200 border-green-300"
    ELSE IF count * 10 > 8 * total THEN "bg-green-500 hover:bg-green-600"
         ELSE IF count * 10 > 6 * total THEN "bg-green-400 hover:bg-green-500"
         ELSE IF count * 10 > 4 * total THEN "bg-green-300 hover:bg-green-400"
         ELSE IF count * 10 > 2 * total THEN "bg-green-200 hover:bg-green-300"
         ELSE IF count > 0 THEN "bg-green-100 hover:bg-green-200"
         ELSE "bg-gray-50 hover:bg-gray-100"

\* getHeatmapColor; ratio >= 0.8 is count/total >= 8/10, compared exactly
getHeatmapColor(count, total, isUserSelected) ==
    IF total = 0 THEN "bg-gray-50 hover:bg-gray-100"
    ELSE IF isUserSelected
    THEN IF count * 10 >= 8 * total THEN "bg-green-600 border-green-700"
         ELSE IF count * 10 >= 6 * total THEN "bg-green-500 border-green-600"
         ELSE IF count * 10 >= 4 * total THEN "bg-green-400 border-green-500"
         ELSE IF count * 10 >= 2 * total THEN "bg-green-300 border-green-400"
         ELSE "bg-green-200 border-green-300"
    ELSE IF count * 10 >= 8 * total THEN "bg-green-500 hover:bg-green-600"
         ELSE IF count * 10 >= 6 * total THEN "bg-green-400 hover:bg-green-500"
         ELSE IF count * 10 >= 4 * total THEN "bg-green-300 hover:bg-green-400"
         ELSE IF count * 10 >= 2 * total THEN "bg-green-200 hover:bg-green-300"
         ELSE IF count > 0 THEN "bg-green-100 hover:bg-green-200"
         ELSE "bg-gray-50 hover:bg-gray-100"

Min(a, b) == IF a <= b THEN a ELSE b
Max(a, b) == IF a >= b THEN a ELSE b

\* a variant that destructures the parts in the other order
splitSlot_swapped(slot) ==
    LET parts == Split(slot, Sep)
    IN  [date |-> At(parts, 1), time |-> At(parts, 0)]

\* getSlotsBetween, decoding: const [startDate, startTime] = startSlot.split('_')
splitSlot(slot) ==
    LET parts == Split(slot, Sep)
    IN  [date |-> At(parts, 0), time |-> At(parts, 1)]

\* getSlotsBetween, decoding: the column and time indices of a slot key
\* (split('_') keeps the first two parts; indexOf gives -1 for a part not found)
SlotIndices(cols, slots, slot) ==
    LET parts == splitSlot(slot)
    IN  [date |-> IndexOf(cols, parts.date), time |-> IndexOf(slots, parts.time)]

\* a variant of the nested loops whose time loop stops before maxTimeIndex
RectLoop_exclusive(cols, slots, minDateIndex, maxDateIndex, minTimeIndex, maxTimeIndex) ==
    LET nDate == Max(maxDateIndex - minDateIndex + 1, 0)
        nTime == Max(maxTimeIndex - minTimeIndex, 0)
    IN  [k \in 1..(nDate * nTime) |->
            getSlotKey(At(cols, minDateIndex + ((k - 1) \div nTime)),
                       At(slots, minTimeIndex + ((k - 1) % nTime)))]

\* getSlotsBetween, the two nested loops: the keys pushed, in push order
RectLoop(cols, slots, minDateIndex, maxDateIndex, minTimeIndex, maxTimeIndex) ==
    LET nDate == Max(maxDateIndex - minDateIndex + 1, 0)
        nTime == Max(maxTimeIndex - minTimeIndex + 1, 0)
    IN  [k \in 1..(nDate * nTime) |->
            getSlotKey(At(cols, minDateIndex + ((k - 1) \div nTime)),
                       At(slots, minTimeIndex + ((k - 1) % nTime)))]

\* a variant that loops from the start indices to the end indices, without
\* Math.min and Math.max
getSlotsBetween_directed(cols, slots, startSlot, endSlot) ==
    LET start == SlotIndices(cols, slots, startSlot)
        end   == SlotIndices(cols, slots, endSlot)
    IN  RectLoop(cols, slots, start.date, end.date, start.time, end.time)

getSlotsBetween(cols, slots, startSlot, endSlot) ==
    LET start == SlotIndices(cols, slots, startSlot)
        end   == SlotIndices(cols, slots, endSlot)
    IN  RectLoop(cols, slots,
                 Min(start.date, end.date), Max(start.date, end.date),
                 Min(start.time, end.time), Max(start.time, end.time))

(***************************************************************************)
(* EventPage: the best-slot finder.                                        *)
(***************************************************************************)
\* obj[key] = val on an object kept as its entries in insertion order
ObjSet(obj, key, val) ==
    IF \E i \in 1..Len(obj) : obj[i].key = key
    THEN [i \in 1..Len(obj) |-> IF obj[i].key = key THEN [key |-> key, val |-> val] ELSE obj[i]]
    ELSE Append(obj, [key |-> key, val |-> val])

\* for (const user in responses) if (responses[user][key]) count++, from entry i
RECURSIVE CountLoop(_, _, _, _)
CountLoop(resp, key, i, count) ==
    IF i > Len(resp) THEN count
    ELSE CountLoop(resp, key, i + 1, IF Truthy(resp[i].resp, key) THEN count + 1 ELSE count)

\* the counting loops of getBestTimes: slotCounts after cell n of the scan
\* (for date of dates, for time of slots)
RECURSIVE SlotCounts(_, _, _, _)
SlotCounts(cols, slots, resp, n) ==
    IF n = 0 THEN <<>>
    ELSE LET date == cols[((n - 1) \div Len(slots)) + 1]
             time == slots[((n - 1) % Len(slots)) + 1]
             key  == getSlotKey(date, time)
         IN  ObjSet(SlotCounts(cols, slots, resp, n - 1), key, CountLoop(resp, key, 1, 0))

\* Math.max(...values) for a non-empty list
RECURSIVE MathMax(_)
MathMax(values) ==
    IF Len(values) = 1 THEN values[1]
    ELSE Max(values[1], MathMax(Tail(values)))

\* a variant whose time part starts at the separator: key.slice(idx)
decodeBestKey_keepsSeparator(key) ==
    LET idx == LastIndexOf(key, Sep)
    IN  [date |-> Slice(key, 0, idx), time |-> Slice(key, idx, Len(key))]

\* getBestTimes, decoding: lastIndexOf("_") and the two slices
decodeBestKey(key) ==
    LET idx == LastIndexOf(key, Sep)
    IN  [date |-> Slice(key, 0, idx), time |-> Slice(key, idx + 1, Len(key))]

\* a variant of the collecting loop that stops at the first slot with the
\* maximum count
RECURSIVE BestLoop_firstOnly(_, _, _)
BestLoop_firstOnly(slotCounts, max, i) ==
    IF i > Len(slotCounts) THEN <<>>
    ELSE LET key == slotCounts[i].key
             idx == LastIndexOf(key, Sep)
         IN  IF slotCounts[i].val = max
             THEN <<[date  |-> Slice(key, 0, idx),
                     time  |-> Slice(key, idx + 1, Len(key)),
                     count |-> slotCounts[i].val]>>
             ELSE BestLoop_firstOnly(slotCounts, max, i + 1)

\* the collecting loop of getBestTimes over Object.entries(slotCounts), from entry i
RECURSIVE BestLoop(_, _, _)
BestLoop(slotCounts, max, i) ==
    IF i > Len(slotCounts) THEN <<>>
    ELSE LET parts == decodeBestKey(slotCounts[i].key)
             hit == IF slotCounts[i].val = max
                    THEN <<[date  |-> parts.date,
                            time  |-> parts.time,
                            count |-> slotCounts[i].val]>>
                    ELSE <<>>
         IN  hit \o BestLoop(slotCounts, max, i + 1)

\* a variant without the early return for max = 0
getBestTimes_noZeroReturn(cols, range, resp) ==
    LET slots == generateTimeSlots(range)
        slotCounts == SlotCounts(cols, slots, resp, Len(cols) * Len(slots))
    IN  IF slotCounts = <<>> THEN <<>>
        ELSE BestLoop(slotCounts, MathMax([i \in 1..Len(slotCounts) |-> slotCounts[i].val]), 1)

\* getBestTimes for gridColumns = cols, eventData.time_range = range,
\* eventData.responses = resp
getBestTimes(cols, range, resp) ==
    LET slots == generateTimeSlots(range)
        slotCounts == SlotCounts(cols, slots, resp, Len(cols) * Len(slots))
    IN  IF slotCounts = <<>> THEN <<>>   \* Math.max() is -Infinity; nothing to collect
        ELSE LET max == MathMax([i \in 1..Len(slotCounts) |-> slotCounts[i].val])
             IN  IF max = 0 THEN <<>> ELSE BestLoop(slotCounts, max, 1)

\* the inner loop of filterResponsesForBestOnly: the keys of userResp that
\* bestKeys has, each with userResp's value
FilterMap(userResp, bestKeys) ==
    [key \in {k \in DOMAIN userResp : k \in bestKeys} |-> userResp[key]]

\* filterResponsesForBestOnly(resp), with getBestTimes() computed from
\* gridColumns = cols, eventData.time_range = range, eventData.responses = eventResp
filterResponsesForBestOnly(resp, cols, range, eventResp) ==
    LET best == getBestTimes(cols, range, eventResp)
        bestKeys == {best[i].date \o <<Sep>> \o best[i].time : i \in 1..Len(best)}
    IN  IF Len(best) = 0 THEN <<>>
        ELSE [i \in 1..Len(resp) |->
                [user |-> resp[i].user, resp |-> FilterMap(resp[i].resp, bestKeys)]]

\* a variant that flips the mode and leaves the chosen slot alone
scheduleToggle_keepsSlot(scheduling, slot) ==
    [isScheduling |-> ~scheduling, scheduledSlot |-> slot]

\* the schedule-toggle button's onClick: the new isScheduling and scheduledSlot
scheduleToggle(scheduling, slot) ==
    [isScheduling |-> ~scheduling, scheduledSlot |-> NoSlot]

(***************************************************************************)
(* AvailabilityGrid (mouse version): the gesture handlers, as functions of *)
(* the props and state they read.                                          *)
(***************************************************************************)
\* a variant that sets the key instead of negating it
handleSlotToggle_set(avail, dateStr, timeSlot) ==
    Put(avail, getSlotKey(dateStr, timeSlot), TRUE)

\* handleSlotToggle: the map handed to onAvailabilityChange
handleSlotToggle(avail, dateStr, timeSlot) ==
    LET slotKey == getSlotKey(dateStr, timeSlot)
    IN  Put(avail, slotKey, ~Truthy(avail, slotKey))

\* handleMouseDown: the drag mode it sets
mouseDownDragMode(avail, dateStr, timeSlot) ==
    IF Truthy(avail, getSlotKey(dateStr, timeSlot)) THEN "deselect" ELSE "select"

\* a variant that always selects, whatever the drag mode
handleMouseEnter_alwaysSelect(avail, cols, slots, dragging, startSlot, mode, dateStr, timeSlot) ==
    IF ~dragging \/ startSlot = Null THEN avail
    ELSE PutAll(avail, getSlotsBetween(cols, slots, startSlot, getSlotKey(dateStr, timeSlot)),
                TRUE)

\* a variant that starts from an empty map instead of a copy of userAvailability
handleMouseEnter_fromEmpty(avail, cols, slots, dragging, startSlot, mode, dateStr, timeSlot) ==
    IF ~dragging \/ startSlot = Null THEN avail
    ELSE PutAll(EmptyMap, getSlotsBetween(cols, slots, startSlot, getSlotKey(dateStr, timeSlot)),
                mode = "select")

\* a variant that also writes the opposite value to every key of the map that
\* the rectangle does not cover
handleMouseEnter_resetsOutside(avail, cols, slots, dragging, startSlot, mode, dateStr, timeSlot) ==
    IF ~dragging \/ startSlot = Null THEN avail
    ELSE LET slotsInRange == getSlotsBetween(cols, slots, startSlot, getSlotKey(dateStr, timeSlot))
             inRange      == {slotsInRange[i] : i \in 1..Len(slotsInRange)}
         IN  [k \in DOMAIN avail \cup inRange |-> (k \in inRange) = (mode = "select")]

\* handleMouseEnter: the map handed to onAvailabilityChange (the map itself on
\* the early return)
handleMouseEnter(avail, cols, slots, dragging, startSlot, mode, dateStr, timeSlot) ==
    IF ~dragging \/ startSlot = Null THEN avail
    ELSE LET currentSlot  == getSlotKey(dateStr, timeSlot)
             slotsInRange == getSlotsBetween(cols, slots, startSlot, currentSlot)
             shouldSelect == (mode = "select")
         IN  PutAll(avail, slotsInRange, shouldSelect)

(***************************************************************************)
(* AvailabilityGrid (react-selecto version): onSchedule and handleSelect.  *)
(* e.selected is the list of selected cells, each with its data-date and   *)
(* data-time; e.inputEvent.type is the type of the event that ended the    *)
(* selection.                                                              *)
(***************************************************************************)
\* the forEach of the click branch: newAvailability[slotKey] = !newAvailability[slotKey]
RECURSIVE ToggleAll(_, _)
ToggleAll(m, selected) ==
    IF selected = <<>> THEN m
    ELSE LET slotKey == getSlotKey(Head(selected).date, Head(selected).time)
         IN  ToggleAll(Put(m, slotKey, ~Truthy(m, slotKey)), Tail(selected))

\* the forEach of the drag branch: newAvailability[slotKey] = true
RECURSIVE SelectAll(_, _)
SelectAll(m, selected) ==
    IF selected = <<>> THEN m
    ELSE SelectAll(Put(m, getSlotKey(Head(selected).date, Head(selected).time), TRUE),
                   Tail(selected))

\* a variant without the early return for scheduling mode
handleSelect_ignoresScheduling(avail, readOnly, scheduling, selected, inputType) ==
    IF readOnly THEN avail
    ELSE IF inputType \in {"mouseup", "touchend"}
    THEN ToggleAll(avail, selected)
    ELSE SelectAll(avail, selected)

\* handleSelect: the respondent's map after the selectEnd event
handleSelect(avail, readOnly, scheduling, selected, inputType) ==
    IF readOnly THEN avail
    ELSE IF scheduling THEN avail
    ELSE IF inputType \in {"mouseup", "touchend"}
    THEN ToggleAll(avail, selected)
    ELSE SelectAll(avail, selected)

\* a variant that takes the first cell of any non-empty selection
onSchedule_takesFirst(slot, scheduling, selected) ==
    IF scheduling /\ Len(selected) >= 1
    THEN <<[date |-> selected[1].date, time |-> selected[1].time]>>
    ELSE slot

\* a variant without the isScheduling test
onSchedule_anyMode(slot, scheduling, selected) ==
    IF Len(selected) = 1
    THEN <<[date |-> selected[1].date, time |-> selected[1].time]>>
    ELSE slot

\* onSchedule: the scheduled slot after the select event
onSchedule(slot, scheduling, selected) ==
    IF scheduling /\ Len(selected) = 1
    THEN <<[date |-> selected[1].date, time |-> selected[1].time]>>
    ELSE slot

(***************************************************************************)
(* Index page: the timeRange state, the TimeRangeSelector that edits it    *)
(* through onTimeChange = setTimeRange, and handleCreateEvent.  ix is the  *)
(* page's state with the selector's state in it.                           *)
(***************************************************************************)
\* the Index page as mounted, events being the rows already inserted
IndexMounted(events) ==
    [timeRange     |-> [start |-> <<"0", "9", ":", "0", "0">>,
                        end   |-> <<"1", "7", ":", "0", "0">>],
     isDragging    |-> FALSE,
     dragStartTime |-> <<>>,     \* ""
     events        |-> events]

\* getTimeIndex: findIndex over timeOptions, -1 when no option has the value
getTimeIndex(timeValue) == IndexOf(generateTimeOptions, timeValue)

\* TimeRangeSelector.handleMouseDown
handleTimeMouseDown(ix, timeValue) ==
    [ix EXCEPT !.isDragging = TRUE,
               !.dragStartTime = timeValue,
               !.timeRange = [start |-> timeValue, end |-> timeValue]]

\* TimeRangeSelector.handleMouseEnter
handleTimeMouseEnter(ix, timeValue) ==
    IF ~ix.isDragging \/ ix.dragStartTime = <<>> THEN ix
    ELSE LET startIndex   == getTimeIndex(ix.dragStartTime)
             currentIndex == getTimeIndex(timeValue)
         IN  IF startIndex = -1 \/ currentIndex = -1 THEN ix
             ELSE IF currentIndex >= startIndex
                  THEN [ix EXCEPT !.timeRange = [start |-> ix.dragStartTime, end |-> timeValue]]
                  ELSE [ix EXCEPT !.timeRange = [start |-> timeValue, end |-> ix.dragStartTime]]

\* TimeRangeSelector.handleMouseUp
handleTimeMouseUp(ix) ==
    [ix EXCEPT !.isDragging = FALSE, !.dragStartTime = <<>>]

\* TimeRangeSelector.handleStartTimeChange
handleStartTimeChange(ix, value) ==
    [ix EXCEPT !.timeRange = [start |-> value, end |-> ix.timeRange.end]]

\* TimeRangeSelector.handleEndTimeChange
handleEndTimeChange(ix, value) ==
    [ix EXCEPT !.timeRange = [start |-> ix.timeRange.start, end |-> value]]

\* Index.handleCreateEvent.  nameOk: eventNameError is null and the trimmed
\* name is not empty; datesOk: the date (or weekday) selection of the mode is
\* not empty; insertError: the insert returned an error or no row.  After a
\* successful insert the page navigates to the event and is mounted anew
\* when it is visited again.
handleCreateEvent(ix, nameOk, datesOk, insertError) ==
    IF ~nameOk THEN ix
    ELSE IF ~datesOk THEN ix
    ELSE IF insertError THEN ix
    ELSE IndexMounted(Append(ix.events, [time_range |-> ix.timeRange]))

(***************************************************************************)
(* EventPage: the name step, handleSubmitAvailability between its awaits,  *)
(* the Edit button and the props the page hands to the grid.  pg is the    *)
(* page's state: userName, hasEnteredName, hasSubmitted, isEditing and     *)
(* isSubmitting, with pc the await handleSubmitAvailability is suspended   *)
(* at ("idle" when it is not running) and payload the row it sent.         *)
(***************************************************************************)
MaxNameLength == 250

\* the EventPage as mounted
PageMounted ==
    [userName       |-> <<>>,
     hasEnteredName |-> FALSE,
     hasSubmitted   |-> FALSE,
     isEditing      |-> FALSE,
     isSubmitting   |-> FALSE,
     pc             |-> "idle",
     payload        |-> <<>>]

\* String.prototype.trim, for the space character
RECURSIVE Trim(_)
Trim(s) ==
    IF Len(s) = 0 THEN s
    ELSE IF s[1] = " " THEN Trim(Tail(s))
    ELSE IF s[Len(s)] = " " THEN Trim(SubSeq(s, 1, Len(s) - 1))
    ELSE s

\* handleUserNameChange (userNameError is not modelled)
handleUserNameChange(pg, value) == [pg EXCEPT !.userName = value]

\* handleNameSubmit
handleNameSubmit(pg) ==
    LET sanitizedUserName == Trim(pg.userName)
    IN  IF Len(sanitizedUserName) = 0 THEN pg
        ELSE IF Len(sanitizedUserName) > MaxNameLength THEN pg
        ELSE [pg EXCEPT !.hasEnteredName = TRUE]

\* a variant of the isReadOnly prop without the name test
isReadOnlyProp_submittedOnly(pg) == pg.hasSubmitted /\ ~pg.isEditing

\* the isReadOnly prop of the grid
isReadOnlyProp(pg) == ~pg.hasEnteredName \/ (pg.hasSubmitted /\ ~pg.isEditing)

\* onClick of the Edit button
editClick(pg) == [pg EXCEPT !.isEditing = TRUE]

\* handleSubmitAvailability from its call to the await of the upsert: the row
\* holds the userAvailability of the render the button was pressed in
\* (eventData is loaded in every state of the model)
submitStart(pg, avail) ==
    LET sanitizedUserName == Trim(pg.userName)
    IN  IF Len(sanitizedUserName) = 0 THEN pg
        ELSE IF Len(sanitizedUserName) > MaxNameLength THEN pg
        ELSE [pg EXCEPT !.isSubmitting = TRUE,
                        !.pc = "upsert",
                        !.payload = <<[user_name |-> sanitizedUserName, availability |-> avail]>>]

\* the store's upsert on the votes of the event: a row of the same name is
\* overwritten, a new name is added
upsert(table, row) ==
    IF \E i \in 1..Len(table) : table[i].user_name = row.user_name
    THEN [i \in 1..Len(table) |-> IF table[i].user_name = row.user_name THEN row ELSE table[i]]
    ELSE Append(table, row)

\* a variant of the error branch that returns without setIsSubmitting(false)
afterUpsert_staysSubmitting(pg, error) ==
    IF error THEN [pg EXCEPT !.pc = "idle", !.payload = <<>>]
    ELSE [pg EXCEPT !.hasSubmitted = TRUE, !.isEditing = FALSE, !.pc = "refetchEvent"]

\* handleSubmitAvailability from the upsert's answer to its return (error) or
\* to the await of the event select
afterUpsert(pg, error) ==
    IF error THEN [pg EXCEPT !.isSubmitting = FALSE, !.pc = "idle", !.payload = <<>>]
    ELSE [pg EXCEPT !.hasSubmitted = TRUE, !.isEditing = FALSE, !.pc = "refetchEvent"]

\* from the event select's answer to the await of the votes select (data) or
\* to the return
afterEventSelect(pg, data) ==
    IF data THEN [pg EXCEPT !.pc = "refetchVotes"]
    ELSE [pg EXCEPT !.isSubmitting = FALSE, !.pc = "idle", !.payload = <<>>]

\* from the votes select's answer to the return
afterVotesSelect(pg) ==
    [pg EXCEPT !.isSubmitting = FALSE, !.pc = "idle", !.payload = <<>>]

\* responses[user] = map, on the collection as a list of entries
SetResponse(resp, user, map) ==
    IF \E i \in 1..Len(resp) : resp[i].user = user
    THEN [i \in 1..Len(resp) |-> IF resp[i].user = user THEN [user |-> user, resp |-> map]
                                 ELSE resp[i]]
    ELSE Append(resp, [user |-> user, resp |-> map])

\* a variant that copies only the keys stored true
RECURSIVE votesToResponses_selectedOnly(_)
votesToResponses_selectedOnly(votesData) ==
    IF Len(votesData) = 0 THEN <<>>
    ELSE LET vote == votesData[Len(votesData)]
             sel  == {k \in DOMAIN vote.availability : vote.availability[k]}
         IN  SetResponse(votesToResponses_selectedOnly(SubSeq(votesData, 1, Len(votesData) - 1)),
                         vote.user_name, [k \in sel |-> TRUE])

\* votesData.forEach(vote => responses[vote.user_name] = vote.availability || {})
RECURSIVE votesToResponses(_)
votesToResponses(votesData) ==
    IF Len(votesData) = 0 THEN <<>>
    ELSE LET vote == votesData[Len(votesData)]
         IN  SetResponse(votesToResponses(SubSeq(votesData, 1, Len(votesData) - 1)),
                         vote.user_name, vote.availability)

(***************************************************************************)
(* Configurations.                                                         *)
(***************************************************************************)
Date1 == <<"2", "0", "2", "4", "-", "0", "6", "-", "0", "3">>
Date2 == <<"2", "0", "2", "4", "-", "0", "6", "-", "0", "4">>
Date3 == <<"2", "0", "2", "4", "-", "0", "6", "-", "0", "5">>
Date4 == <<"2", "0", "2", "4", "-", "0", "6", "-", "0", "6">>

\* dates as handleCreateEvent stores them: toISOString().split('T')[0]
DateList == <<Date1, Date2, Date3, Date4>>

\* a longer day: 09:00 to 10:30, three slots
WideRange == [start |-> <<"0", "9", ":", "0", "0">>, end |-> <<"1", "0", ":", "3", "0">>]

\* the time range of the scenario: 09:00 to 10:00, two slots
ScenarioRange == [start |-> <<"0", "9", ":", "0", "0">>, end |-> <<"1", "0", ":", "0", "0">>]

ScenarioCols == <<Date1, Date2>>

Names == <<"Alice", "Bob", "Carol", "Dave">>

\* the cells of a grid, as selecto elements
Cells(cols, slots) == {[date |-> cols[i], time |-> slots[j]] : i \in 1..Len(cols), j \in 1..Len(slots)}

Keys(cols, slots) == {getSlotKey(c.date, c.time) : c \in Cells(cols, slots)}

\* a respondent's stored map over the grid: a set of true cells, the other
\* cells all absent or all stored as false
RespMaps(cols, slots) ==
    LET K == Keys(cols, slots)
    IN  {[k \in T |-> TRUE] : T \in SUBSET K}
        \cup {[k \in K |-> k \in T] : T \in SUBSET K}

\* responses collections of n respondents, in the order of Names
RECURSIVE Collections(_, _, _)
Collections(cols, slots, n) ==
    IF n = 0 THEN {<<>>}
    ELSE {Append(r, [user |-> Names[n], resp |-> m]) :
            r \in Collections(cols, slots, n - 1), m \in RespMaps(cols, slots)}

None == [op |-> "none"]

\* the grid's timeSlots prop
timeSlots == generateTimeSlots(time_range)

(***************************************************************************)
(* SpecSlots: the time-slot indexer on every time range the selector can   *)
(* produce.                                                                *)
(***************************************************************************)
InitSlots ==
    /\ dates = ScenarioCols
    /\ time_range \in [start : TimeValues, end : TimeValues]
    /\ responses = <<>>
    /\ userAvailability = EmptyMap
    /\ isDragging = FALSE
    /\ dragMode = "select"
    /\ dragStartSlot = Null
    /\ variant = "selecto"
    /\ isReadOnly = TRUE
    /\ isScheduling = FALSE
    /\ scheduledSlot = NoSlot
    /\ last = None
    /\ dragBase = EmptyMap
    /\ index = IndexMounted(<<>>)
    /\ page = PageMounted
    /\ votes = <<>>

CallGenerateTimeSlots ==
    /\ last = None
    /\ last' = [op |-> "generateTimeSlots", result |-> generateTimeSlots(time_range)]
    /\ UNCHANGED <<dates, time_range, responses, userAvailability, isDragging, dragMode,
                   dragStartSlot, variant, isReadOnly, isScheduling, scheduledSlot, dragBase,
                   index, page, votes>>

NextSlots == CallGenerateTimeSlots

SpecSlots == InitSlots /\ [][NextSlots]_vars

(***************************************************************************)
(* SpecAgg: the aggregator and the best-slot finder on every responses     *)
(* collection over the scenario's grid.                                    *)
(***************************************************************************)
InitAgg ==
    /\ dates = ScenarioCols
    /\ time_range = ScenarioRange
    /\ responses \in UNION {Collections(ScenarioCols, generateTimeSlots(ScenarioRange), n) : n \in 0..MaxUsers}
    /\ userAvailability = EmptyMap
    /\ isDragging = FALSE
    /\ dragMode = "select"
    /\ dragStartSlot = Null
    /\ variant = "selecto"
    /\ isReadOnly = TRUE
    /\ isScheduling = FALSE
    /\ scheduledSlot = NoSlot
    /\ last = None
    /\ dragBase = EmptyMap
    /\ index = IndexMounted(<<>>)
    /\ page = PageMounted
    /\ votes = <<>>

CallGetAvailabilityData ==
    /\ last = None
    /\ \E c \in Cells(dates, timeSlots) :
        /\ last' = [op |-> "getAvailabilityData", date |-> c.date, time |-> c.time,
                    result |-> getAvailabilityData(responses, c.date, c.time)]
        /\ UNCHANGED <<dates, time_range, responses, userAvailability, isDragging, dragMode,
                       dragStartSlot, variant, isReadOnly, isScheduling, scheduledSlot, dragBase,
                       index, page, votes>>

CallGetBestTimes ==
    /\ last = None
    /\ last' = [op |-> "getBestTimes", result |-> getBestTimes(dates, time_range, responses)]
    /\ UNCHANGED <<dates, time_range, responses, userAvailability, isDragging, dragMode,
                   dragStartSlot, variant, isReadOnly, isScheduling, scheduledSlot, dragBase,
                   index, page, votes>>

NextAgg == CallGetAvailabilityData \/ CallGetBestTimes

SpecAgg == InitAgg /\ [][NextAgg]_vars

(***************************************************************************)
(* SpecHeat: the heatmap classifier on every count and total a render can  *)
(* pass it.                                                                *)
(***************************************************************************)
InitHeat ==
    /\ dates = ScenarioCols
    /\ time_range = ScenarioRange
    /\ responses = <<>>
    /\ userAvailability = EmptyMap
    /\ isDragging = FALSE
    /\ dragMode = "select"
    /\ dragStartSlot = Null
    /\ variant = "selecto"
    /\ isReadOnly = TRUE
    /\ isScheduling = FALSE
    /\ scheduledSlot = NoSlot
    /\ last = None
    /\ dragBase = EmptyMap
    /\ index = IndexMounted(<<>>)
    /\ page = PageMounted
    /\ votes = <<>>

CallGetHeatmapColor ==
    /\ last = None
    /\ \E total \in 0..MaxTotal : \E count \in 0..total : \E isUserSelected \in BOOLEAN :
        /\ last' = [op |-> "getHeatmapColor", count |-> count, total |-> total,
                    isUserSelected |-> isUserSelected,
                    result |-> getHeatmapColor(count, total, isUserSelected)]
        /\ UNCHANGED <<dates, time_range, responses, userAvailability, isDragging, dragMode,
                       dragStartSlot, variant, isReadOnly, isScheduling, scheduledSlot, dragBase,
                       index, page, votes>>

NextHeat == CallGetHeatmapColor

SpecHeat == InitHeat /\ [][NextHeat]_vars

(***************************************************************************)
(* SpecRange: getSlotsBetween on every pair of slot keys of a grid.        *)
(***************************************************************************)
InitRange ==
    /\ dates = SubSeq(DateList, 1, NumCols)
    /\ time_range \in {ScenarioRange, WideRange}
    /\ responses = <<>>
    /\ userAvailability = EmptyMap
    /\ isDragging = FALSE
    /\ dragMode = "select"
    /\ dragStartSlot = Null
    /\ variant = "mouse"
    /\ isReadOnly = FALSE
    /\ isScheduling = FALSE
    /\ scheduledSlot = NoSlot
    /\ last = None
    /\ dragBase = EmptyMap
    /\ index = IndexMounted(<<>>)
    /\ page = PageMounted
    /\ votes = <<>>

CallGetSlotsBetween ==
    /\ last = None
    /\ LET slots == timeSlots
       IN  \E a \in Keys(dates, slots) : \E b \in Keys(dates, slots) :
            /\ last' = [op |-> "getSlotsBetween", startSlot |-> a, endSlot |-> b,
                        result |-> getSlotsBetween(dates, slots, a, b)]
            /\ UNCHANGED <<dates, time_range, responses, userAvailability, isDragging,
                           dragMode, dragStartSlot, variant, isReadOnly, isScheduling,
                           scheduledSlot, dragBase, index, page, votes>>

NextRange == CallGetSlotsBetween

SpecRange == InitRange /\ [][NextRange]_vars

(***************************************************************************)
(* SpecGrid: the AvailabilityGrid component under the events the browser   *)
(* delivers to it, in any order.  The parent keeps userAvailability and    *)
(* hands it back as a prop (onAvailabilityChange = setUserAvailability).   *)
(***************************************************************************)
InitGrid ==
    /\ dates = ScenarioCols
    /\ time_range = ScenarioRange
    /\ responses = <<>>
    /\ userAvailability = EmptyMap
    /\ isDragging = FALSE
    /\ dragMode = "select"
    /\ dragStartSlot = Null
    /\ variant \in {"mouse", "selecto"}
    /\ isReadOnly \in (IF variant = "selecto" THEN BOOLEAN ELSE {FALSE})
    /\ isScheduling \in (IF variant = "selecto" THEN BOOLEAN ELSE {FALSE})
    /\ scheduledSlot = NoSlot
    /\ last = None
    /\ dragBase = EmptyMap
    /\ index = IndexMounted(<<>>)
    /\ page = PageMounted
    /\ votes = <<>>

\* onMouseDown of a cell
MouseDown ==
    /\ variant = "mouse"
    /\ \E c \in Cells(dates, timeSlots) :
        /\ dragMode' = mouseDownDragMode(userAvailability, c.date, c.time)
        /\ isDragging' = TRUE
        /\ dragStartSlot' = getSlotKey(c.date, c.time)
        /\ userAvailability' = handleSlotToggle(userAvailability, c.date, c.time)
        /\ dragBase' = userAvailability
        /\ last' = [op |-> "handleMouseDown", slot |-> getSlotKey(c.date, c.time)]
        /\ UNCHANGED <<dates, time_range, responses, variant, isReadOnly, isScheduling,
                       scheduledSlot, index, page, votes>>

\* onMouseEnter of a cell
MouseEnter ==
    /\ variant = "mouse"
    /\ LET slots == timeSlots
       IN  \E c \in Cells(dates, slots) :
            /\ userAvailability' = handleMouseEnter(userAvailability, dates, slots, isDragging,
                                                    dragStartSlot, dragMode, c.date, c.time)
            /\ last' = [op |-> "handleMouseEnter", slot |-> getSlotKey(c.date, c.time)]
            /\ UNCHANGED <<dates, time_range, responses, isDragging, dragMode, dragStartSlot,
                           variant, isReadOnly, isScheduling, scheduledSlot, dragBase,
                           index, page, votes>>

\* a variant of handleMouseUp that hands the map of pointer-down back to the parent
MouseUp_rollsBack ==
    /\ variant = "mouse"
    /\ isDragging' = FALSE
    /\ dragStartSlot' = Null
    /\ dragBase' = EmptyMap
    /\ userAvailability' = (IF isDragging THEN dragBase ELSE userAvailability)
    /\ last' = [op |-> "handleMouseUp"]
    /\ UNCHANGED <<dates, time_range, responses, dragMode, variant,
                   isReadOnly, isScheduling, scheduledSlot, index, page, votes>>

\* onMouseUp / onMouseLeave of the grid: handleMouseUp
MouseUp ==
    /\ variant = "mouse"
    /\ isDragging' = FALSE
    /\ dragStartSlot' = Null
    /\ dragBase' = EmptyMap
    /\ last' = [op |-> "handleMouseUp"]
    /\ UNCHANGED <<dates, time_range, responses, userAvailability, dragMode, variant,
                   isReadOnly, isScheduling, scheduledSlot, index, page, votes>>

\* the lists of cells a selection can end with: nothing, or the cells of a
\* rectangle of the grid in document order (row by row)
Selections(cols, slots) ==
    {<<>>} \cup
    {[k \in 1..(Max(c2 - c1 + 1, 0) * Max(t2 - t1 + 1, 0)) |->
        [date |-> cols[c1 + ((k - 1) % (c2 - c1 + 1))],
         time |-> slots[t1 + ((k - 1) \div (c2 - c1 + 1))]]] :
      c1 \in 1..Len(cols), c2 \in 1..Len(cols), t1 \in 1..Len(slots), t2 \in 1..Len(slots)}
    \* (an index pair out of order gives the empty list again)

InputTypes == {"mouseup", "touchend", "mousemove"}

\* Selecto's select event: onSchedule
SelectoSelect ==
    /\ variant = "selecto"
    /\ \E selected \in Selections(dates, timeSlots) :
        /\ scheduledSlot' = onSchedule(scheduledSlot, isScheduling, selected)
        /\ last' = [op |-> "onSchedule", selected |-> selected]
        /\ UNCHANGED <<dates, time_range, responses, userAvailability, isDragging, dragMode,
                       dragStartSlot, variant, isReadOnly, isScheduling, dragBase,
                       index, page, votes>>

\* Selecto's selectEnd event: handleSelect
SelectoSelectEnd ==
    /\ variant = "selecto"
    /\ \E selected \in Selections(dates, timeSlots) : \E inputType \in InputTypes :
        /\ userAvailability' = handleSelect(userAvailability, isReadOnly, isScheduling,
                                            selected, inputType)
        /\ last' = [op |-> "handleSelect", selected |-> selected, inputType |-> inputType]
        /\ UNCHANGED <<dates, time_range, responses, isDragging, dragMode, dragStartSlot,
                       variant, isReadOnly, isScheduling, scheduledSlot, dragBase,
                       index, page, votes>>

NextGrid == MouseDown \/ MouseEnter \/ MouseUp \/ SelectoSelect \/ SelectoSelectEnd

SpecGrid == InitGrid /\ [][NextGrid]_vars

(***************************************************************************)
(* SpecSched: the event page's scheduling mode over the selecto grid: the  *)
(* schedule-toggle button and Selecto's select and selectEnd events, in    *)
(* any order.                                                              *)
(***************************************************************************)
InitSched ==
    /\ dates = ScenarioCols
    /\ time_range = ScenarioRange
    /\ responses = <<>>
    /\ userAvailability = EmptyMap
    /\ isDragging = FALSE
    /\ dragMode = "select"
    /\ dragStartSlot = Null
    /\ variant = "selecto"
    /\ isReadOnly \in BOOLEAN
    /\ isScheduling = FALSE
    /\ scheduledSlot = NoSlot
    /\ last = None
    /\ dragBase = EmptyMap
    /\ index = IndexMounted(<<>>)
    /\ page = PageMounted
    /\ votes = <<>>

\* onClick of the schedule-toggle button
ScheduleToggle ==
    /\ variant = "selecto"
    /\ LET new == scheduleToggle(isScheduling, scheduledSlot)
       IN  /\ isScheduling' = new.isScheduling
           /\ scheduledSlot' = new.scheduledSlot
    /\ last' = [op |-> "scheduleToggle"]
    /\ UNCHANGED <<dates, time_range, responses, userAvailability, isDragging, dragMode,
                   dragStartSlot, variant, isReadOnly, dragBase, index, page, votes>>

NextSched == ScheduleToggle \/ SelectoSelect \/ SelectoSelectEnd

SpecSched == InitSched /\ [][NextSched]_vars

(***************************************************************************)
(* SpecFilter: filterResponsesForBestOnly on the two collections the event *)
(* page hands it: eventData.responses, and the editing respondent's own    *)
(* { [userName]: userAvailability }.  The best slots always come from     *)
(* eventData.responses.                                                    *)
(***************************************************************************)
\* the editing respondent's map: empty, every cell selected, or the first
\* cell selected and the others stored false
OwnMaps(cols, slots) ==
    LET K == Keys(cols, slots)
    IN  {EmptyMap, [k \in K |-> TRUE], [k \in K |-> k = getSlotKey(cols[1], slots[1])]}

InitFilter ==
    /\ dates = ScenarioCols
    /\ time_range = ScenarioRange
    /\ responses \in UNION {Collections(ScenarioCols, generateTimeSlots(ScenarioRange), n) : n \in 0..MaxUsers}
    /\ userAvailability \in OwnMaps(ScenarioCols, generateTimeSlots(ScenarioRange))
    /\ isDragging = FALSE
    /\ dragMode = "select"
    /\ dragStartSlot = Null
    /\ variant = "selecto"
    /\ isReadOnly = FALSE
    /\ isScheduling = FALSE
    /\ scheduledSlot = NoSlot
    /\ last = None
    /\ dragBase = EmptyMap
    /\ index = IndexMounted(<<>>)
    /\ page = PageMounted
    /\ votes = <<>>

\* the responses prop with showBestOnly on: the filter applied to
\* eventData.responses (view "all") or to the respondent's own map (view "own")
CallFilterResponsesForBestOnly ==
    /\ last = None
    /\ \E view \in {"all", "own"} :
        LET arg == IF view = "all" THEN responses
                   ELSE <<[user |-> Names[1], resp |-> userAvailability]>>
        IN  /\ last' = [op |-> "filterResponsesForBestOnly", arg |-> arg,
                        best |-> getBestTimes(dates, time_range, responses),
                        result |-> filterResponsesForBestOnly(arg, dates, time_range, responses)]
            /\ UNCHANGED <<dates, time_range, responses, userAvailability, isDragging,
                           dragMode, dragStartSlot, variant, isReadOnly, isScheduling,
                           scheduledSlot, dragBase, index, page, votes>>

NextFilter == CallFilterResponsesForBestOnly

SpecFilter == InitFilter /\ [][NextFilter]_vars

(***************************************************************************)
(* SpecKeys: building and decoding slot keys, on grids of dates and of     *)
(* weekday names, and getSlotsBetween on keys of a grid configuration that *)
(* is no longer the current one.                                           *)
(***************************************************************************)
\* the weekly mode's column names, by day number 0..6
dayNames ==
    <<<<"S", "u", "n", "d", "a", "y">>,
      <<"M", "o", "n", "d", "a", "y">>,
      <<"T", "u", "e", "s", "d", "a", "y">>,
      <<"W", "e", "d", "n", "e", "s", "d", "a", "y">>,
      <<"T", "h", "u", "r", "s", "d", "a", "y">>,
      <<"F", "r", "i", "d", "a", "y">>,
      <<"S", "a", "t", "u", "r", "d", "a", "y">>>>

\* gridColumns of a weekly event with days_of_week = [1, 3, 5]
WeeklyCols == <<dayNames[2], dayNames[4], dayNames[6]>>

\* a column and a time of an earlier grid configuration
StaleDate == <<"2", "0", "2", "4", "-", "0", "5", "-", "3", "1">>
StaleTime == <<"0", "8", ":", "3", "0">>

\* the keys of the earlier configuration that the current grid does not have
StaleKeys(cols, slots) ==
    {getSlotKey(d, t) : d \in {cols[i] : i \in 1..Len(cols)} \cup {StaleDate},
                        t \in {slots[j] : j \in 1..Len(slots)} \cup {StaleTime}}
        \ Keys(cols, slots)

InitKeys ==
    /\ dates \in {SubSeq(DateList, 1, NumCols), WeeklyCols}
    /\ time_range \in {ScenarioRange, WideRange}
    /\ responses = <<>>
    /\ userAvailability = EmptyMap
    /\ isDragging = FALSE
    /\ dragMode = "select"
    /\ dragStartSlot = Null
    /\ variant = "mouse"
    /\ isReadOnly = FALSE
    /\ isScheduling = FALSE
    /\ scheduledSlot = NoSlot
    /\ last = None
    /\ dragBase = EmptyMap
    /\ index = IndexMounted(<<>>)
    /\ page = PageMounted
    /\ votes = <<>>

\* getSlotKey of a cell, then the decoding and index lookup of getSlotsBetween
CallSlotIndices ==
    /\ last = None
    /\ LET slots == timeSlots
       IN  \E c \in Cells(dates, slots) :
            /\ last' = [op |-> "SlotIndices", date |-> c.date, time |-> c.time,
                        result |-> SlotIndices(dates, slots, getSlotKey(c.date, c.time))]
            /\ UNCHANGED <<dates, time_range, responses, userAvailability, isDragging,
                           dragMode, dragStartSlot, variant, isReadOnly, isScheduling,
                           scheduledSlot, dragBase, index, page, votes>>

\* the decoding of getSlotsBetween on a slot key of the grid
CallSplitSlot ==
    /\ last = None
    /\ \E k \in Keys(dates, timeSlots) :
        /\ last' = [op |-> "splitSlot", key |-> k, result |-> splitSlot(k)]
        /\ UNCHANGED <<dates, time_range, responses, userAvailability, isDragging, dragMode,
                       dragStartSlot, variant, isReadOnly, isScheduling, scheduledSlot, dragBase,
                       index, page, votes>>

\* the decoding of getBestTimes on a slot key of the grid
CallDecodeBestKey ==
    /\ last = None
    /\ \E k \in Keys(dates, timeSlots) :
        /\ last' = [op |-> "decodeBestKey", key |-> k, result |-> decodeBestKey(k)]
        /\ UNCHANGED <<dates, time_range, responses, userAvailability, isDragging, dragMode,
                       dragStartSlot, variant, isReadOnly, isScheduling, scheduledSlot, dragBase,
                       index, page, votes>>

\* getSlotsBetween with a key of the earlier configuration as start or end;
\* no statement of getSlotsBetween throws, so error is always Null
CallGetSlotsBetweenStale ==
    /\ last = None
    /\ LET slots == timeSlots
           stale == StaleKeys(dates, slots)
           all   == Keys(dates, slots) \cup stale
       IN  \E a \in all : \E b \in all :
            /\ a \in stale \/ b \in stale
            /\ last' = [op |-> "getSlotsBetween", startSlot |-> a, endSlot |-> b,
                        result |-> getSlotsBetween(dates, slots, a, b), error |-> Null]
            /\ UNCHANGED <<dates, time_range, responses, userAvailability, isDragging,
                           dragMode, dragStartSlot, variant, isReadOnly, isScheduling,
                           scheduledSlot, dragBase, index, page, votes>>

NextKeys == CallSlotIndices \/ CallSplitSlot \/ CallDecodeBestKey \/ CallGetSlotsBetweenStale

SpecKeys == InitKeys /\ [][NextKeys]_vars

(***************************************************************************)
(* SpecCreate: the Index page under the events of its TimeRangeSelector    *)
(* (the two selects, pointer-down, hover and pointer-up on the time tiles) *)
(* and the Create Event button, in any order.                              *)
(***************************************************************************)
\* the options the user picks among: the first and the last of the day, the
\* two ends of the default range and the half hour after its start
TimeChoices == {generateTimeOptions[k] : k \in {1, 19, 20, 35, 48}}

InitCreate ==
    /\ dates = ScenarioCols
    /\ time_range = ScenarioRange
    /\ responses = <<>>
    /\ userAvailability = EmptyMap
    /\ isDragging = FALSE
    /\ dragMode = "select"
    /\ dragStartSlot = Null
    /\ variant = "selecto"
    /\ isReadOnly = TRUE
    /\ isScheduling = FALSE
    /\ scheduledSlot = NoSlot
    /\ last = None
    /\ dragBase = EmptyMap
    /\ index = IndexMounted(<<>>)
    /\ page = PageMounted
    /\ votes = <<>>

\* onMouseDown of a time tile
TimeMouseDown ==
    /\ \E t \in TimeChoices : index' = handleTimeMouseDown(index, t)
    /\ last' = [op |-> "TimeRangeSelector.handleMouseDown"]
    /\ UNCHANGED <<dates, time_range, responses, userAvailability, isDragging, dragMode,
                   dragStartSlot, variant, isReadOnly, isScheduling, scheduledSlot, dragBase,
                   page, votes>>

\* onMouseEnter of a time tile
TimeMouseEnter ==
    /\ \E t \in TimeChoices : index' = handleTimeMouseEnter(index, t)
    /\ last' = [op |-> "TimeRangeSelector.handleMouseEnter"]
    /\ UNCHANGED <<dates, time_range, responses, userAvailability, isDragging, dragMode,
                   dragStartSlot, variant, isReadOnly, isScheduling, scheduledSlot, dragBase,
                   page, votes>>

\* onMouseUp / onMouseLeave of the tiles' container
TimeMouseUp ==
    /\ index' = handleTimeMouseUp(index)
    /\ last' = [op |-> "TimeRangeSelector.handleMouseUp"]
    /\ UNCHANGED <<dates, time_range, responses, userAvailability, isDragging, dragMode,
                   dragStartSlot, variant, isReadOnly, isScheduling, scheduledSlot, dragBase,
                   page, votes>>

\* onValueChange of the Start Time select
StartTimeChange ==
    /\ \E t \in TimeChoices : index' = handleStartTimeChange(index, t)
    /\ last' = [op |-> "handleStartTimeChange"]
    /\ UNCHANGED <<dates, time_range, responses, userAvailability, isDragging, dragMode,
                   dragStartSlot, variant, isReadOnly, isScheduling, scheduledSlot, dragBase,
                   page, votes>>

\* onValueChange of the End Time select
EndTimeChange ==
    /\ \E t \in TimeChoices : index' = handleEndTimeChange(index, t)
    /\ last' = [op |-> "handleEndTimeChange"]
    /\ UNCHANGED <<dates, time_range, responses, userAvailability, isDragging, dragMode,
                   dragStartSlot, variant, isReadOnly, isScheduling, scheduledSlot, dragBase,
                   page, votes>>

\* onClick of the Create Event button
CreateEvent ==
    /\ Len(index.events) < MaxEvents
    /\ \E nameOk \in BOOLEAN : \E datesOk \in BOOLEAN : \E insertError \in BOOLEAN :
        index' = handleCreateEvent(index, nameOk, datesOk, insertError)
    /\ last' = [op |-> "handleCreateEvent"]
    /\ UNCHANGED <<dates, time_range, responses, userAvailability, isDragging, dragMode,
                   dragStartSlot, variant, isReadOnly, isScheduling, scheduledSlot, dragBase,
                   page, votes>>

NextCreate ==
    TimeMouseDown \/ TimeMouseEnter \/ TimeMouseUp \/ StartTimeChange \/ EndTimeChange
        \/ CreateEvent

SpecCreate == InitCreate /\ [][NextCreate]_vars

(***************************************************************************)
(* SpecPage: one respondent on the EventPage of a loaded event: the name   *)
(* input and Continue, selections on the grid, Submit Availability with    *)
(* the store's answers arriving later, and Edit, in any order the page     *)
(* allows.  isReadOnly is the prop of the current render.                  *)
(***************************************************************************)
RespondentName == <<"A", "n", "n">>
OtherName == <<"B", "o", "b">>

\* what the respondent types into the name input
NameInputs == {<<>>, <<" ">>, RespondentName \o <<" ">>}

\* the column of the event
PageCols == SubSeq(ScenarioCols, 1, 1)

\* the votes table when the page is opened: one vote of another respondent,
\* for the first slot
StoredVotes ==
    <<[user_name |-> OtherName,
       availability |-> Put(EmptyMap, getSlotKey(PageCols[1], generateTimeSlots(ScenarioRange)[1]),
                            TRUE)]>>

\* the state after fetchEvent has set eventData
InitPage ==
    /\ dates = PageCols
    /\ time_range = ScenarioRange
    /\ votes = StoredVotes
    /\ responses = votesToResponses(votes)
    /\ userAvailability = EmptyMap
    /\ isDragging = FALSE
    /\ dragMode = "select"
    /\ dragStartSlot = Null
    /\ variant = "selecto"
    /\ page = PageMounted
    /\ isReadOnly = isReadOnlyProp(PageMounted)
    /\ isScheduling = FALSE
    /\ scheduledSlot = NoSlot
    /\ last = None
    /\ dragBase = EmptyMap
    /\ index = IndexMounted(<<>>)

\* onChange of the name input (disabled once the name is entered)
UserNameChange ==
    /\ ~page.hasEnteredName
    /\ \E value \in NameInputs : page' = handleUserNameChange(page, value)
    /\ isReadOnly' = isReadOnlyProp(page')
    /\ last' = [op |-> "handleUserNameChange"]
    /\ UNCHANGED <<dates, time_range, responses, userAvailability, isDragging, dragMode,
                   dragStartSlot, variant, isScheduling, scheduledSlot, dragBase, index, votes>>

\* onClick of Continue (shown until the name is entered, disabled while the
\* trimmed name is empty)
NameSubmit ==
    /\ ~page.hasEnteredName
    /\ Len(Trim(page.userName)) > 0
    /\ page' = handleNameSubmit(page)
    /\ isReadOnly' = isReadOnlyProp(page')
    /\ last' = [op |-> "handleNameSubmit"]
    /\ UNCHANGED <<dates, time_range, responses, userAvailability, isDragging, dragMode,
                   dragStartSlot, variant, isScheduling, scheduledSlot, dragBase, index, votes>>

\* onClick of Submit Availability (shown once the name is entered, disabled
\* while isSubmitting): handleSubmitAvailability runs to its first await
SubmitPress ==
    /\ page.hasEnteredName
    /\ ~page.isSubmitting
    /\ page' = submitStart(page, userAvailability)
    /\ isReadOnly' = isReadOnlyProp(page')
    /\ last' = [op |-> "handleSubmitAvailability"]
    /\ UNCHANGED <<dates, time_range, responses, userAvailability, isDragging, dragMode,
                   dragStartSlot, variant, isScheduling, scheduledSlot, dragBase, index, votes>>

\* the upsert is answered: with an error, or after the store has written the row
UpsertReturns ==
    /\ page.pc = "upsert"
    /\ \E error \in BOOLEAN :
        /\ votes' = (IF error THEN votes ELSE upsert(votes, page.payload[1]))
        /\ page' = afterUpsert(page, error)
        /\ last' = [op |-> "upsert", error |-> error, row |-> page.payload[1],
                    resubmit |-> page.hasSubmitted /\ page.isEditing]
    /\ isReadOnly' = isReadOnlyProp(page')
    /\ UNCHANGED <<dates, time_range, responses, userAvailability, isDragging, dragMode,
                   dragStartSlot, variant, isScheduling, scheduledSlot, dragBase, index>>

\* the select of the event is answered, with the event or without
EventSelectReturns ==
    /\ page.pc = "refetchEvent"
    /\ \E data \in BOOLEAN :
        /\ page' = afterEventSelect(page, data)
        /\ last' = [op |-> "selectEvent", data |-> data]
    /\ isReadOnly' = isReadOnlyProp(page')
    /\ UNCHANGED <<dates, time_range, responses, userAvailability, isDragging, dragMode,
                   dragStartSlot, variant, isScheduling, scheduledSlot, dragBase, index, votes>>

\* the select of the votes is answered, with the rows or with null:
\* setEventData({ ...data, responses })
VotesSelectReturns ==
    /\ page.pc = "refetchVotes"
    /\ \E votesData \in BOOLEAN :
        /\ responses' = (IF votesData THEN votesToResponses(votes) ELSE <<>>)
        /\ last' = [op |-> "selectVotes", votesData |-> votesData, row |-> page.payload[1]]
    /\ page' = afterVotesSelect(page)
    /\ isReadOnly' = isReadOnlyProp(page')
    /\ UNCHANGED <<dates, time_range, userAvailability, isDragging, dragMode,
                   dragStartSlot, variant, isScheduling, scheduledSlot, dragBase, index, votes>>

\* onClick of Edit (shown while hasSubmitted && !isEditing)
Edit ==
    /\ page.hasSubmitted
    /\ ~page.isEditing
    /\ page' = editClick(page)
    /\ isReadOnly' = isReadOnlyProp(page')
    /\ last' = [op |-> "edit"]
    /\ UNCHANGED <<dates, time_range, responses, userAvailability, isDragging, dragMode,
                   dragStartSlot, variant, isScheduling, scheduledSlot, dragBase, index, votes>>

NextPage ==
    UserNameChange \/ NameSubmit \/ SelectoSelectEnd \/ SubmitPress \/ UpsertReturns
        \/ EventSelectReturns \/ VotesSelectReturns \/ Edit

SpecPage == InitPage /\ [][NextPage]_vars

(***************************************************************************)
(* Properties.  The definitions below say what the specification expects   *)
(* of the grid, in terms of column and time indices; they do not use the   *)
(* operators above that compute the same things.                           *)
(***************************************************************************)
Range(s) == {s[i] : i \in DOMAIN s}

Abs(x) == IF x < 0 THEN -x ELSE x

\* the grid: the slot key "<columnId>_<HH:MM>" of every cell, by
\* <<column index, time index>>
GridKeys ==
    LET slots == timeSlots
    IN  [p \in (1..Len(dates)) \X (1..Len(slots)) |-> dates[p[1]] \o <<"_">> \o slots[p[2]]]

\* the <<column index, time index>> of slot key k in grid K
IdxOf(K, k) == CHOOSE p \in DOMAIN K : K[p] = k

Between(x, a, b) == (a <= x /\ x <= b) \/ (b <= x /\ x <= a)

\* the slot keys of the inclusive rectangle of grid K spanned by slot keys a and b
Rectangle(K, a, b) ==
    LET pa == IdxOf(K, a)
        pb == IdxOf(K, b)
    IN  {K[p] : p \in {q \in DOMAIN K :
                        Between(q[1], pa[1], pb[1]) /\ Between(q[2], pa[2], pb[2])}}

\* the respondents (indices into responses) available at slot key k
AvailableAt(k) ==
    {i \in 1..Len(responses) : k \in DOMAIN responses[i].resp /\ responses[i].resp[k] = TRUE}

\* the greatest value of a function to the naturals (0 for the empty function)
Greatest(f) ==
    IF DOMAIN f = {} THEN 0
    ELSE f[CHOOSE p \in DOMAIN f : \A q \in DOMAIN f : f[q] <= f[p]]

\* C1: for every responses collection and every cell, the aggregator's count
\* is the number of respondents whose map holds true at the cell's slot key,
\* availableUsers is exactly those respondents, count = availableUsers.length
\* and count never exceeds the number of respondents.
C1_AggregateCountsAvailable ==
    last.op = "getAvailabilityData" =>
        LET avail == AvailableAt(last.date \o <<"_">> \o last.time)
            users == last.result.availableUsers
        IN  /\ last.result.count = Cardinality(avail)
            /\ Range(users) = {responses[i].user : i \in avail}
            /\ Len(users) = last.result.count
            /\ last.result.count <= Len(responses)

\* two respondents, one of them available at the cell and one not
C1_Witness ==
    /\ last.op = "getAvailabilityData"
    /\ Len(responses) = 2
    /\ last.result.count = 1
    /\ last.result.availableUsers = <<"Bob">>

\* C2: when the greatest per-cell count is above 0, the best-slot finder
\* returns exactly the cells whose count equals it: every tied cell once, with
\* count = max, no other cell, ordered by column index and then time index.
C2_BestIsExactlyTheTiedCells ==
    last.op = "getBestTimes" =>
        LET K     == GridKeys
            slots == timeSlots
            cnt   == [p \in DOMAIN K |-> Cardinality(AvailableAt(K[p]))]
            max   == Greatest(cnt)
            r     == last.result
            tied  == {p \in DOMAIN K : cnt[p] = max}
            cell(p) == [date |-> dates[p[1]], time |-> slots[p[2]], count |-> max]
            at    == [n \in 1..Len(r) |-> CHOOSE p \in DOMAIN K : r[n] = cell(p)]
        IN  max > 0 =>
            /\ \A n \in 1..Len(r) : \E p \in tied : r[n] = cell(p)
            /\ \A p \in tied : Cardinality({n \in 1..Len(r) : r[n] = cell(p)}) = 1
            /\ \A m \in 1..Len(r) : \A n \in 1..Len(r) :
                    m < n => \/ at[m][1] < at[n][1]
                             \/ at[m][1] = at[n][1] /\ at[m][2] < at[n][2]

\* two cells tie at the maximum of two respondents, the other cells are left out
C2_Witness ==
    /\ last.op = "getBestTimes"
    /\ Len(last.result) = 2
    /\ last.result[1].count = 2
    /\ Len(dates) * Len(timeSlots) > 2

\* C3: the best-slot finder returns the empty list whenever no cell of the
\* grid has a respondent available (no respondents, or every map empty or all
\* false).
C3_BestEmptyWhenNobodyAvailable ==
    last.op = "getBestTimes" =>
        ((\A k \in Range(GridKeys) : AvailableAt(k) = {}) => last.result = <<>>)

\* two respondents, one with an empty map and one with every cell stored false
C3_Witness ==
    /\ last.op = "getBestTimes"
    /\ Len(responses) = 2
    /\ responses[1].resp = <<>>
    /\ DOMAIN responses[2].resp = Range(GridKeys)
    /\ \A k \in DOMAIN responses[2].resp : responses[2].resp[k] = FALSE
    /\ last.result = <<>>

\* C4: for two slot keys a and b of the grid, getSlotsBetween(a, b) is exactly
\* the keys of the cells whose column and time indices lie between those of a
\* and b, inclusive; its size is (|dcol|+1) * (|dtime|+1); and
\* getSlotsBetween(a, a) is {a}.
C4_SlotsBetweenIsInclusiveRectangle ==
    last.op = "getSlotsBetween" =>
        LET K  == GridKeys
            pa == IdxOf(K, last.startSlot)
            pb == IdxOf(K, last.endSlot)
            size == (Abs(pa[1] - pb[1]) + 1) * (Abs(pa[2] - pb[2]) + 1)
        IN  /\ Range(last.result) = Rectangle(K, last.startSlot, last.endSlot)
            /\ Cardinality(Range(last.result)) = size
            /\ Len(last.result) = size
            /\ last.startSlot = last.endSlot => last.result = <<last.startSlot>>

\* a rectangle of two columns and two times that leaves cells of the grid out
C4_Witness ==
    /\ last.op = "getSlotsBetween"
    /\ Len(last.result) = 4
    /\ IdxOf(GridKeys, last.startSlot)[1] = IdxOf(GridKeys, last.endSlot)[1] + 1
    /\ IdxOf(GridKeys, last.startSlot)[2] + 1 = IdxOf(GridKeys, last.endSlot)[2]
    /\ Len(dates) * Len(timeSlots) > 4

\* C5: getSlotsBetween is direction-independent: (a, b) and (b, a) give the
\* same set of slot keys.
C5_SlotsBetweenDirectionIndependent ==
    last.op = "getSlotsBetween" =>
        Range(last.result) =
            Range(getSlotsBetween(dates, timeSlots, last.endSlot, last.startSlot))

\* a drag up and to the left: the start cell is after the end cell on both axes
C5_Witness ==
    /\ last.op = "getSlotsBetween"
    /\ IdxOf(GridKeys, last.startSlot)[1] > IdxOf(GridKeys, last.endSlot)[1]
    /\ IdxOf(GridKeys, last.startSlot)[2] > IdxOf(GridKeys, last.endSlot)[2]
    /\ Len(last.result) >= 4

\* the text HH:MM of minute m of the day
Clock(m) ==
    LET d == <<"0", "1", "2", "3", "4", "5", "6", "7", "8", "9">>
        h == m \div 60
        r == m % 60
    IN  <<d[(h \div 10) + 1], d[(h % 10) + 1], ":", d[(r \div 10) + 1], d[(r % 10) + 1]>>

\* the half hours of a day, numbered from midnight
HalfHours == 0..((24 * 60) \div 30 - 1)

\* C6: for 30-minute-aligned times start < end, generateTimeSlots has length
\* (end - start)/30, begins at start and ascends in steps of 30 minutes, and
\* never contains end.
C6_SlotsAreHalfHoursFromStartToEnd ==
    last.op = "generateTimeSlots" =>
        \A s \in HalfHours : time_range.start = Clock(30 * s) =>
            \A e \in HalfHours : (s < e /\ time_range.end = Clock(30 * e)) =>
                /\ Len(last.result) = e - s
                /\ \A k \in 1..Len(last.result) : last.result[k] = Clock(30 * (s + k - 1))
                /\ time_range.end \notin Range(last.result)

\* the default range 09:00 to 17:00: sixteen slots, the last one 16:30
C6_Witness ==
    /\ last.op = "generateTimeSlots"
    /\ time_range = [start |-> Clock(540), end |-> Clock(1020)]
    /\ Len(last.result) = 16
    /\ last.result[16] = Clock(990)

\* key k has the same entry (present or not, and the value if present) in m1 and m2
SameEntry(m1, m2, k) ==
    /\ k \in DOMAIN m1 <=> k \in DOMAIN m2
    /\ k \in DOMAIN m1 => m1[k] = m2[k]

\* key k reads as selected in map m (an absent key counts as false)
Selected(m, k) == k \in DOMAIN m /\ m[k] = TRUE

\* C7: in a drag gesture the paint value is fixed at pointer-down as the
\* negation of the start cell's value at that moment, and every hover of the
\* gesture writes that value to every key of the rectangle between the
\* drag-start cell and the current cell.
C7_DragPaintsNegationOfStart ==
    isDragging =>
        LET paint == ~Selected(dragBase, dragStartSlot)
        IN  /\ dragMode = (IF paint THEN "select" ELSE "deselect")
            /\ last.op = "handleMouseDown" =>
                    /\ dragStartSlot = last.slot
                    /\ dragStartSlot \in DOMAIN userAvailability
                    /\ userAvailability[dragStartSlot] = paint
            /\ last.op = "handleMouseEnter" =>
                    \A k \in Rectangle(GridKeys, dragStartSlot, last.slot) :
                        k \in DOMAIN userAvailability /\ userAvailability[k] = paint

\* a deselecting drag whose hover covers the whole grid, over a cell that was
\* unselected and one that was selected at pointer-down
C7_Witness ==
    /\ isDragging
    /\ last.op = "handleMouseEnter"
    /\ dragMode = "deselect"
    /\ Rectangle(GridKeys, dragStartSlot, last.slot) = Range(GridKeys)
    /\ \E k \in Range(GridKeys) : k # dragStartSlot /\ Selected(dragBase, k)
    /\ \E k \in Range(GridKeys) : ~Selected(dragBase, k)
    /\ \A k \in Range(GridKeys) : k \in DOMAIN userAvailability /\ userAvailability[k] = FALSE

\* C8 (as stated): after every hover of a drag, the cells outside the current
\* rectangle have the value they had before the gesture, so the cells changed
\* by the gesture are exactly those of the current rectangle.
C8_ShrinkUnpaints ==
    (isDragging /\ last.op = "handleMouseEnter") =>
        \A k \in Range(GridKeys) \ Rectangle(GridKeys, dragStartSlot, last.slot) :
            Selected(userAvailability, k) = Selected(dragBase, k)

\* C8 (amended): each hover of a drag writes the paint value to the keys of
\* the rectangle between the drag-start cell and the current cell and leaves
\* every key outside that rectangle as the previous event left it, so a cell
\* painted by an earlier hover stays painted when the rectangle shrinks.
C8_HoverOverwritesRectangleOnly ==
    [][(isDragging /\ last'.op = "handleMouseEnter") =>
        LET rect == Rectangle(GridKeys, dragStartSlot, last'.slot)
        IN  /\ \A k \in rect :
                    /\ k \in DOMAIN userAvailability'
                    /\ userAvailability'[k] = ~Selected(dragBase, dragStartSlot)
            /\ \A k \in (DOMAIN userAvailability \cup DOMAIN userAvailability') \ rect :
                    SameEntry(userAvailability, userAvailability', k)]_vars

\* a hover back on the start cell after a wider hover: a cell outside the
\* one-cell rectangle still has the painted value
C8_Witness ==
    /\ isDragging
    /\ last.op = "handleMouseEnter"
    /\ last.slot = dragStartSlot
    /\ \E k \in Range(GridKeys) \ {dragStartSlot} :
            Selected(userAvailability, k) # Selected(dragBase, k)

\* the map m2 is the map m1 with the value of key k negated (absent counts as
\* false) and every other key as it was
Flipped(m1, m2, k) ==
    /\ DOMAIN m2 = DOMAIN m1 \cup {k}
    /\ m2[k] = ~Selected(m1, k)
    /\ \A x \in DOMAIN m1 \ {k} : m2[x] = m1[x]

\* C9: a click flips exactly the targeted slot key in the respondent's map:
\* the key becomes the negation of its previous value (absent counts as
\* false) and every other key keeps its value.  A click is a pointer-down on a
\* cell (mouse grid), or a selection of one cell ended by mouseup or touchend
\* while the grid is editable and not scheduling (selecto grid).
C9_ClickFlipsTargetOnly ==
    [][/\ last'.op = "handleMouseDown" =>
            Flipped(userAvailability, userAvailability', last'.slot)
       /\ (/\ last'.op = "handleSelect"
           /\ last'.inputType \in {"mouseup", "touchend"}
           /\ Len(last'.selected) = 1
           /\ ~isReadOnly
           /\ ~isScheduling) =>
            Flipped(userAvailability, userAvailability',
                    last'.selected[1].date \o <<"_">> \o last'.selected[1].time)]_vars

\* a click on a selected cell of the selecto grid: the cell is now stored as
\* false while another cell is still selected
C9_Witness ==
    /\ last.op = "handleSelect"
    /\ last.inputType = "mouseup"
    /\ Len(last.selected) = 1
    /\ ~isReadOnly
    /\ ~isScheduling
    /\ LET k == last.selected[1].date \o <<"_">> \o last.selected[1].time
       IN  /\ k \in DOMAIN userAvailability
           /\ userAvailability[k] = FALSE
           /\ \E x \in DOMAIN userAvailability : x # k /\ userAvailability[x] = TRUE

\* the tier of a colour class: 5 for the darkest of its palette down to 1 for
\* the lightest green, 0 for the empty (gray) class
BucketOf(class) ==
    CASE class \in {"bg-green-600 border-green-700", "bg-green-500 hover:bg-green-600"} -> 5
      [] class \in {"bg-green-500 border-green-600", "bg-green-400 hover:bg-green-500"} -> 4
      [] class \in {"bg-green-400 border-green-500", "bg-green-300 hover:bg-green-400"} -> 3
      [] class \in {"bg-green-300 border-green-400", "bg-green-200 hover:bg-green-300"} -> 2
      [] class \in {"bg-green-200 border-green-300", "bg-green-100 hover:bg-green-200"} -> 1
      [] class = "bg-gray-50 hover:bg-gray-100" -> 0

\* the tier of the ratio count/total by the thresholds 4/5, 3/5, 2/5, 1/5,
\* each inclusive below
TierOf(count, total) ==
    IF 5 * count >= 4 * total THEN 5
    ELSE IF 5 * count >= 3 * total THEN 4
    ELSE IF 5 * count >= 2 * total THEN 3
    ELSE IF 5 * count >= total THEN 2
    ELSE 1

\* C10: for total > 0 and 0 < count <= total the bucket is the tier given by
\* the thresholds 0.8, 0.6, 0.4, 0.2 with inclusive lower bounds (a positive
\* ratio below 0.2 is in the lowest non-empty tier), and the bucket is
\* monotonic non-decreasing in count/total.
C10_BucketIsThresholdTier ==
    (last.op = "getHeatmapColor" /\ last.total > 0 /\ 0 < last.count /\ last.count <= last.total) =>
        /\ BucketOf(last.result) = TierOf(last.count, last.total)
        /\ \A total \in 1..MaxTotal : \A count \in 1..total :
                last.count * total <= count * last.total =>
                    BucketOf(last.result)
                        <= BucketOf(getHeatmapColor(count, total, last.isUserSelected))

\* a ratio exactly at the threshold 0.6 (3 of 5) takes the tier above it
C10_Witness ==
    /\ last.op = "getHeatmapColor"
    /\ last.count = 3
    /\ last.total = 5
    /\ ~last.isUserSelected
    /\ last.result = "bg-green-400 hover:bg-green-500"

\* C14: toggling scheduling mode clears the chosen slot in both directions:
\* after entering Active mode and after leaving it there is no scheduled slot.
C14_ToggleClearsScheduledSlot ==
    [][last'.op = "scheduleToggle" =>
        /\ isScheduling' = ~isScheduling
        /\ scheduledSlot' = NoSlot]_vars

\* scheduling mode was left (cancel) and no slot is chosen
C14_Witness ==
    /\ last.op = "scheduleToggle"
    /\ ~isScheduling
    /\ scheduledSlot = NoSlot
    /\ userAvailability # EmptyMap

\* C15: while scheduling mode is active, a selection of exactly one cell sets
\* the chosen slot to that cell, replacing any prior choice, and a selection of
\* any other size leaves the chosen slot as it was.
C15_OnlySingleCellIsScheduled ==
    [][(isScheduling /\ last'.op = "onSchedule") =>
        IF Len(last'.selected) = 1
        THEN scheduledSlot' = <<[date |-> last'.selected[1].date, time |-> last'.selected[1].time]>>
        ELSE scheduledSlot' = scheduledSlot]_vars

\* a selection of several cells while a slot is chosen: the choice is still
\* there, and it is none of the selected cells
C15_Witness ==
    /\ isScheduling
    /\ last.op = "onSchedule"
    /\ Len(last.selected) = 2
    /\ scheduledSlot # NoSlot
    /\ \A i \in 1..Len(last.selected) :
            scheduledSlot # <<[date |-> last.selected[i].date, time |-> last.selected[i].time]>>

\* C16: scheduling and availability editing are mutually exclusive: while
\* scheduling mode is active no selection gesture changes the respondent's
\* availability map, and while it is inactive no selection gesture changes
\* the chosen scheduled slot.
C16_SchedulingExcludesEditing ==
    [][last'.op \in {"onSchedule", "handleSelect"} =>
        /\ isScheduling => userAvailability' = userAvailability
        /\ ~isScheduling => scheduledSlot' = scheduledSlot]_vars

\* a selection ended while scheduling on an editable grid whose map has
\* entries, with a slot chosen
C16_Witness ==
    /\ isScheduling
    /\ ~isReadOnly
    /\ last.op = "handleSelect"
    /\ Len(last.selected) >= 1
    /\ userAvailability # EmptyMap
    /\ scheduledSlot # NoSlot

\* C11: the bucket is the empty one whenever count = 0 with total > 0 and
\* whenever total = 0, whether or not the respondent has the cell selected.
C11_EmptyBucketWhenNobodyAvailable ==
    (last.op = "getHeatmapColor" /\ (last.count = 0 \/ last.total = 0)) =>
        BucketOf(last.result) = 0

\* the slot keys of the cells of a best list
BestKeys(best) == {best[i].date \o <<"_">> \o best[i].time : i \in 1..Len(best)}

\* C12: the filter returns a collection in which each respondent's map holds
\* exactly those of the respondent's slot keys that are keys of cells of the
\* best list, each with its original value; every other key is dropped.
C12_FilterKeepsExactlyBestKeys ==
    last.op = "filterResponsesForBestOnly" =>
        LET arg == last.arg
            r   == last.result
            bk  == BestKeys(last.best)
        IN  /\ Len(r) = Len(arg)
            /\ \A i \in 1..Len(arg) :
                    /\ r[i].user = arg[i].user
                    /\ DOMAIN r[i].resp = DOMAIN arg[i].resp \cap bk
                    /\ \A k \in DOMAIN r[i].resp : r[i].resp[k] = arg[i].resp[k]

\* C13: when the best list is empty the result keeps every respondent of the
\* input, each mapped to a map with no slot keys.
C13_EmptyBestKeepsRespondents ==
    (last.op = "filterResponsesForBestOnly" /\ Len(last.best) = 0) =>
        /\ Len(last.result) = Len(last.arg)
        /\ \A i \in 1..Len(last.arg) :
                /\ last.result[i].user = last.arg[i].user
                /\ last.result[i].resp = EmptyMap

\* what the code does hold to: with a non-empty best list the result is the
\* per-respondent restriction to the best keys; with an empty one it is the
\* empty collection
FilterAsCoded ==
    last.op = "filterResponsesForBestOnly" =>
        IF Len(last.best) = 0 THEN last.result = <<>>
        ELSE LET bk == BestKeys(last.best)
             IN  /\ Len(last.result) = Len(last.arg)
                 /\ \A i \in 1..Len(last.arg) :
                        /\ last.result[i].user = last.arg[i].user
                        /\ DOMAIN last.result[i].resp = DOMAIN last.arg[i].resp \cap bk
                        /\ \A k \in DOMAIN last.result[i].resp :
                                last.result[i].resp[k] = last.arg[i].resp[k]

\* the 0-based index of the first occurrence of x in the sequence arr
FirstIndex(arr, x) ==
    (CHOOSE i \in 1..Len(arr) : arr[i] = x /\ \A j \in 1..(i - 1) : arr[j] # x) - 1

\* C17: round trip: for every column and every time of the grid, decoding the
\* key built from them yields the pair (index of the column in columns, index
\* of the time in timeSlots).
C17_KeyRoundTrip ==
    last.op = "SlotIndices" =>
        last.result = [date |-> FirstIndex(dates, last.date),
                       time |-> FirstIndex(timeSlots, last.time)]

\* the key of the last weekday column and a later time slot
C17_Witness ==
    /\ last.op = "SlotIndices"
    /\ dates = WeeklyCols
    /\ last.date = dates[Len(dates)]
    /\ last.result = [date |-> Len(dates) - 1, time |-> 1]

C19_UnresolvableKeyFails ==
    (/\ last.op = "getSlotsBetween"
     /\ \/ last.startSlot \notin Range(GridKeys)
        \/ last.endSlot \notin Range(GridKeys)) =>
        last.error = "KeyResolutionError"

\* C20: when start >= end is supplied, the slot indexer reports
\* InvalidTimeRangeError instead of silently producing an empty slot list.
C20_InvalidRangeIsReported ==
    last.op = "generateTimeSlots" =>
        \A s \in HalfHours : time_range.start = Clock(30 * s) =>
            \A e \in HalfHours : (s >= e /\ time_range.end = Clock(30 * e)) =>
                last.result # <<>>

\* C21: generateTimeSlots on a range whose start is not before its end (equal
\* or reversed) returns the empty sequence.
C21_EmptyWhenStartNotBeforeEnd ==
    last.op = "generateTimeSlots" =>
        \A s \in HalfHours : time_range.start = Clock(30 * s) =>
            \A e \in 0..s : time_range.end = Clock(30 * e) => Len(last.result) = 0

\* a reversed range, 17:00 to 09:00, gave no slot
C21_Witness ==
    /\ last.op = "generateTimeSlots"
    /\ time_range = [start |-> Clock(1020), end |-> Clock(540)]
    /\ last.result = <<>>

\* C24: within one drag gesture nothing is undone on leave: a key that holds
\* the gesture's paint value before a hover holds it after the hover, whether
\* or not the hover's rectangle covers it; in particular the cells the
\* previous hover's rectangle covered and the new one does not cover keep
\* the painted value.
C24_LeftCellsKeepPaint ==
    [][(isDragging /\ last'.op = "handleMouseEnter") =>
        LET paint == ~Selected(dragBase, dragStartSlot)
            now   == Rectangle(GridKeys, dragStartSlot, last'.slot)
        IN  /\ \A k \in DOMAIN userAvailability \ now :
                    userAvailability[k] = paint =>
                        k \in DOMAIN userAvailability' /\ userAvailability'[k] = paint
            /\ last.op = "handleMouseEnter" =>
                    \A k \in Rectangle(GridKeys, dragStartSlot, last.slot) \ now :
                        k \in DOMAIN userAvailability' /\ userAvailability'[k] = paint]_vars

\* a deselecting drag after a hover away from the start cell: a cell that was
\* selected at pointer-down and was covered by an earlier hover of the gesture
\* is outside the current rectangle and is stored false
C24_Witness ==
    /\ isDragging
    /\ dragMode = "deselect"
    /\ last.op = "handleMouseEnter"
    /\ last.slot # dragStartSlot
    /\ \E k \in Range(GridKeys) \ Rectangle(GridKeys, dragStartSlot, last.slot) :
            /\ Selected(dragBase, k)
            /\ k \in DOMAIN userAvailability
            /\ userAvailability[k] = FALSE

\* C25: abandoning a drag (handleMouseUp, on pointer-up or on the pointer
\* leaving the grid) changes only the drag-session state: the availability
\* map stays as the last processed hover left it, and a hover that arrives
\* while no drag is in progress does not change the map.
C25_AbandonKeepsMap ==
    [][/\ last'.op = "handleMouseUp" =>
            /\ userAvailability' = userAvailability
            /\ ~isDragging'
            /\ dragStartSlot' = Null
            /\ UNCHANGED <<dates, time_range, responses>>
       /\ (~isDragging /\ last'.op = "handleMouseEnter") =>
            userAvailability' = userAvailability]_vars

\* a hover after an abandoned drag that had painted at least two cells: the
\* painted cells are still in the map
C25_Witness ==
    /\ variant = "mouse"
    /\ ~isDragging
    /\ dragStartSlot = Null
    /\ last.op = "handleMouseEnter"
    /\ \E k1 \in Range(GridKeys) : \E k2 \in Range(GridKeys) \ {k1} :
            Selected(userAvailability, k1) /\ Selected(userAvailability, k2)

\* C28: in every reachable state of the event page, after any sequence of
\* schedule-toggle clicks and grid selection events, a scheduled slot is
\* chosen only while scheduling mode is on.
C28_ScheduledSlotOnlyWhileScheduling ==
    scheduledSlot # NoSlot => isScheduling

\* scheduling mode is on with a slot chosen, and the last selection event,
\* an empty one, left the choice in place
C28_Witness ==
    /\ isScheduling
    /\ scheduledSlot # NoSlot
    /\ last.op = "onSchedule"
    /\ Len(last.selected) = 0

\* the number of respondents of collection c whose map has key k selected
CountIn(c, k) == Cardinality({i \in 1..Len(c) : Selected(c[i].resp, k)})

\* C27: the best-only view filters a collection by the best slots of that
\* same collection: whichever collection the filter is given (the store
\* snapshot, or the editing respondent's own map), every key it keeps is the
\* key of a cell whose count within the given collection is the maximum over
\* the grid.
C27_KeptKeysAreBestOfGivenCollection ==
    last.op = "filterResponsesForBestOnly" =>
        LET K == Range(GridKeys)
        IN  \A i \in 1..Len(last.result) : \A k \in DOMAIN last.result[i].resp :
                /\ k \in K
                /\ \A x \in K : CountIn(last.arg, x) <= CountIn(last.arg, k)

\* C22: every event configuration that is created has a time range whose
\* start is before its end, after any sequence of selector operations
\* followed by Create Event.
C22_CreatedRangeStartsBeforeEnd ==
    \A i \in 1..Len(index.events) :
        \E s \in HalfHours : \E e \in HalfHours :
            /\ s < e
            /\ index.events[i].time_range = [start |-> Clock(30 * s), end |-> Clock(30 * e)]

\* the entries of collection c for respondent name u
EntriesOf(c, u) == {i \in 1..Len(c) : c[i].user = u}

\* the rows of the votes table for respondent name u
RowsOf(t, u) == {i \in 1..Len(t) : t[i].user_name = u}

\* C23: a successful submission, a resubmission after Edit included, fully
\* replaces the respondent's prior map: once the upsert has succeeded the
\* store has exactly one row of that name and it is the submitted map, and
\* once the refetch has delivered the votes the responses collection has
\* exactly one entry of that name and it is the submitted map, so that no
\* key or value of the earlier submission is retained.
C23_ResubmitReplacesPriorMap ==
    /\ (last.op = "upsert" /\ ~last.error) =>
            /\ Cardinality(RowsOf(votes, last.row.user_name)) = 1
            /\ \A i \in RowsOf(votes, last.row.user_name) :
                    votes[i].availability = last.row.availability
    /\ (last.op = "selectVotes" /\ last.votesData) =>
            /\ Cardinality(EntriesOf(responses, last.row.user_name)) = 1
            /\ \A i \in EntriesOf(responses, last.row.user_name) :
                    responses[i].resp = last.row.availability

\* the upsert of a resubmission made in edit mode has succeeded: the entry of
\* the respondent in the snapshot, refetched after the earlier submission,
\* has a slot selected that the row now stored has as false
C23_Witness ==
    /\ last.op = "upsert"
    /\ ~last.error
    /\ last.resubmit
    /\ \E i \in EntriesOf(responses, last.row.user_name) : \E j \in RowsOf(votes, last.row.user_name) :
            \E k \in DOMAIN responses[i].resp \cap DOMAIN votes[j].availability :
                responses[i].resp[k] = TRUE /\ votes[j].availability[k] = FALSE

\* C26: whenever the page is submitted and not editing, with no submission
\* running (the successful submit and its refetch are over), the row stored
\* for the respondent is the respondent's local availability map, whatever
\* selections were made while the upsert was in flight.
C26_StoredMapIsLocalMap ==
    (page.hasSubmitted /\ ~page.isEditing /\ page.pc = "idle") =>
        /\ RowsOf(votes, Trim(page.userName)) # {}
        /\ \A i \in RowsOf(votes, Trim(page.userName)) :
                votes[i].availability = userAvailability

\* C29: while the grid is read-only (no name entered yet, or submitted and
\* Edit not pressed) no selection on the grid, click or drag, changes the
\* respondent's availability map, and a submitted, read-only grid becomes
\* editable again only by a press of Edit.
C29_ReadOnlyGridKeepsMap ==
    [][LET readOnly == ~page.hasEnteredName \/ (page.hasSubmitted /\ ~page.isEditing)
       IN  /\ (readOnly /\ last'.op = "handleSelect") => userAvailability' = userAvailability
           /\ readOnly => isReadOnly
           /\ (page.hasSubmitted /\ ~page.isEditing /\ ~isReadOnly') => last'.op = "edit"]_vars

\* a drag selection of both cells ended on a submitted page before Edit was
\* pressed, and the map it met has neither cell selected
C29_Witness ==
    /\ page.hasSubmitted
    /\ ~page.isEditing
    /\ last.op = "handleSelect"
    /\ last.inputType = "mousemove"
    /\ Len(last.selected) = 2
    /\ \A k \in Range(GridKeys) : ~Selected(userAvailability, k)

\* C30: when the upsert fails, handleSubmitAvailability leaves hasSubmitted,
\* isEditing, the responses snapshot and the local availability map as they
\* were and sets isSubmitting to false; and every submission attempt, failed
\* or successful, is over with isSubmitting false (it is true exactly while
\* the handler is suspended at an await).
C30_FailedUpsertChangesNothing ==
    [][/\ (last'.op = "upsert" /\ last'.error) =>
            /\ page'.hasSubmitted = page.hasSubmitted
            /\ page'.isEditing = page.isEditing
            /\ responses' = responses
            /\ userAvailability' = userAvailability
            /\ ~page'.isSubmitting
            /\ page'.pc = "idle"
       /\ (page.pc # "idle" /\ page'.pc = "idle") => ~page'.isSubmitting
       /\ page'.isSubmitting <=> page'.pc # "idle"]_vars

\* a resubmission from edit mode has failed: the page is still in edit mode
\* with its map, and can submit again
C30_Witness ==
    /\ last.op = "upsert"
    /\ last.error
    /\ page.hasSubmitted
    /\ page.isEditing
    /\ ~page.isSubmitting
    /\ userAvailability # EmptyMap
    /\ \A i \in RowsOf(votes, Trim(page.userName)) : votes[i].availability # userAvailability

====
